---- MODULE Spec2Model ----
(***************************************************************************)
(* SpecPhotCFIS (src/SpecPhotCFIS.py): synthesis of broadband photometric  *)
(* images from a spectral datacube.  The run is modelled statement by      *)
(* statement; floating-point values are modelled by exact numbers          *)
(*     n/d * 10^e * 1499^c * 3631^j                                        *)
(* together with the IEEE special values nan, +inf and -inf, so that the   *)
(* powers of ten of the unit conversions, the speed of light               *)
(* (2.998e8 = 2 * 1499 * 10^5) and the AB zero point (3631) are exact and  *)
(* stay inside TLC's integers.  Rounding error of binary floating point is *)
(* not modelled.                                                           *)
(***************************************************************************)
EXTENDS Integers, Sequences, FiniteSets, TLC

\* ------------------------------------------------------------------------
\* Bounds of the model
\* ------------------------------------------------------------------------
MaxBands == 2

\* wavelength files of the photometry runs: at most MaxWl samples, each a
\* multiple of 1e-4 micron up to MaxRaw
MaxWl == 3

MaxRaw == 4

\* ------------------------------------------------------------------------
\* Exact numbers with IEEE special values
\* ------------------------------------------------------------------------
NaN == [k |-> "nan", n |-> 0, d |-> 1, e |-> 0, c |-> 0, j |-> 0]

PInf == [k |-> "pinf", n |-> 0, d |-> 1, e |-> 0, c |-> 0, j |-> 0]

NInf == [k |-> "ninf", n |-> 0, d |-> 1, e |-> 0, c |-> 0, j |-> 0]

Zero == [k |-> "fin", n |-> 0, d |-> 1, e |-> 0, c |-> 0, j |-> 0]

Abs(x) == IF x < 0 THEN -x ELSE x

RECURSIVE Gcd(_, _)
Gcd(a, b) == IF b = 0 THEN a ELSE Gcd(b, a % b)

RECURSIVE IPow(_, _)
IPow(b, x) == IF x = 0 THEN 1 ELSE b * IPow(b, x - 1)

\* move the factors 10 of the denominator into the power of ten
RECURSIVE StripDen(_, _, _)
StripDen(n, d, e) ==
    IF d % 10 = 0 THEN StripDen(n, d \div 10, e - 1) ELSE <<n, d, e>>

\* move the factors 10 of the numerator into the power of ten
RECURSIVE StripNum(_, _, _)
StripNum(n, d, e) ==
    IF n % 10 = 0 THEN StripNum(n \div 10, d, e + 1) ELSE <<n, d, e>>

\* n/d * 10^e * 1499^c * 3631^j  (d > 0) in lowest terms, n and d without
\* factors 10
Fin(n, d, e, c, j) ==
    IF n = 0 THEN Zero
    ELSE LET g == Gcd(Abs(n), d)
             s == StripDen(n \div g, d \div g, e)
             t == StripNum(s[1], s[2], s[3])
         IN  [k |-> "fin", n |-> t[1], d |-> t[2], e |-> t[3], c |-> c, j |-> j]

Num(n) == Fin(n, 1, 0, 0, 0)

Rat(n, d) == Fin(n, d, 0, 0, 0)

IsFin(a) == a.k = "fin"

IsNaN(a) == a.k = "nan"

\* -1, 0 or 1; the sign of nan is taken as 0
Sign(a) ==
    CASE a.k = "pinf" -> 1
      [] a.k = "ninf" -> -1
      [] a.k = "nan" -> 0
      [] OTHER -> IF a.n > 0 THEN 1 ELSE IF a.n < 0 THEN -1 ELSE 0

SignInf(s) == IF s > 0 THEN PInf ELSE IF s < 0 THEN NInf ELSE NaN

DNeg(a) ==
    CASE a.k = "pinf" -> NInf
      [] a.k = "ninf" -> PInf
      [] a.k = "nan" -> NaN
      [] OTHER -> [a EXCEPT !.n = -a.n]

DMul(a, b) ==
    IF IsNaN(a) \/ IsNaN(b) THEN NaN
    ELSE IF ~IsFin(a) \/ ~IsFin(b) THEN SignInf(Sign(a) * Sign(b))
    ELSE IF a.n = 0 \/ b.n = 0 THEN Zero
    ELSE LET g1 == Gcd(Abs(a.n), b.d)
             g2 == Gcd(Abs(b.n), a.d)
         IN  Fin((a.n \div g1) * (b.n \div g2), (a.d \div g2) * (b.d \div g1),
                 a.e + b.e, a.c + b.c, a.j + b.j)

\* 1/a for a finite and not zero
DInv(a) ==
    IF a.n > 0 THEN Fin(a.d, a.n, -a.e, -a.c, -a.j)
    ELSE Fin(-a.d, -a.n, -a.e, -a.c, -a.j)

\* IEEE division: x/0 is +-inf, 0/0 is nan
DDiv(a, b) ==
    IF IsNaN(a) \/ IsNaN(b) THEN NaN
    ELSE IF ~IsFin(b) THEN (IF IsFin(a) THEN Zero ELSE NaN)
    ELSE IF b.n = 0 THEN SignInf(Sign(a))
    ELSE IF ~IsFin(a) THEN SignInf(Sign(a) * Sign(b))
    ELSE DMul(a, DInv(b))

\* the sum of two finite numbers; the summands of the program's sums
\* carry the same powers of 1499 and 3631
FinAdd(a, b) ==
    IF a.n = 0 THEN b
    ELSE IF b.n = 0 THEN a
    ELSE LET em == IF a.e < b.e THEN a.e ELSE b.e
             an == a.n * IPow(10, a.e - em)
             bn == b.n * IPow(10, b.e - em)
             g  == Gcd(a.d, b.d)
         IN  Fin(an * (b.d \div g) + bn * (a.d \div g), (a.d \div g) * b.d,
                 em, a.c, a.j)

DAdd(a, b) ==
    IF IsNaN(a) \/ IsNaN(b) THEN NaN
    ELSE IF ~IsFin(a) /\ ~IsFin(b) THEN (IF a.k = b.k THEN a ELSE NaN)
    ELSE IF ~IsFin(a) THEN a
    ELSE IF ~IsFin(b) THEN b
    ELSE FinAdd(a, b)

DSub(a, b) == DAdd(a, DNeg(b))

\* a == b as floating-point values: nan equals nothing, not even nan
DEq(a, b) ==
    IF IsNaN(a) \/ IsNaN(b) THEN FALSE
    ELSE IF ~IsFin(a) \/ ~IsFin(b) THEN a.k = b.k
    ELSE Sign(DSub(a, b)) = 0

\* a < b; false when either is nan, as IEEE comparison is
DLess(a, b) ==
    IF IsNaN(a) \/ IsNaN(b) THEN FALSE
    ELSE IF a.k = "pinf" \/ b.k = "ninf" THEN FALSE
    ELSE IF a.k = "ninf" \/ b.k = "pinf" THEN TRUE
    ELSE Sign(DSub(a, b)) < 0

\* a ** x for a finite positive a and an integer x
RECURSIVE DPow(_, _)
DPow(a, x) ==
    IF x = 0 THEN Num(1)
    ELSE IF x < 0 THEN DPow(DInv(a), -x)
    ELSE DMul(a, DPow(a, x - 1))

\* ------------------------------------------------------------------------
\* numpy operations on one-dimensional arrays (sequences of numbers)
\* ------------------------------------------------------------------------
RECURSIVE SumTo(_, _)
SumTo(s, i) == IF i = 0 THEN Zero ELSE DAdd(SumTo(s, i - 1), s[i])

\* np.sum of a one-dimensional array; the sum of no elements is 0
NpSum(s) == SumTo(s, Len(s))

\* np.diff: consecutive differences
NpDiff(s) == [i \in 1..(Len(s) - 1) |-> DSub(s[i + 1], s[i])]

\* the k-th smallest element of s
KthSmallest(s, k) ==
    CHOOSE v \in {s[i] : i \in 1..Len(s)} :
        /\ Cardinality({i \in 1..Len(s) : DLess(s[i], v)}) <= k - 1
        /\ Cardinality({i \in 1..Len(s) : ~DLess(v, s[i])}) >= k

\* np.median: the middle element, or the mean of the two middle elements;
\* nan for an empty array
NpMedian(s) ==
    IF Len(s) = 0 THEN NaN
    ELSE IF Len(s) % 2 = 1 THEN KthSmallest(s, (Len(s) + 1) \div 2)
    ELSE DDiv(DAdd(KthSmallest(s, Len(s) \div 2),
                   KthSmallest(s, Len(s) \div 2 + 1)), Num(2))

\* np.nanmax of an array without nan
NpMax(s) ==
    CHOOSE v \in {s[i] : i \in 1..Len(s)} : \A i \in 1..Len(s) : ~DLess(v, s[i])

\* np.interp at one point x: linear interpolation in the table (xp, fp),
\* left below xp[1] and right above the last xp
InterpAt(x, xp, fp, left, right) ==
    LET n == Len(xp) IN
    IF DLess(x, xp[1]) THEN left
    ELSE IF DLess(xp[n], x) THEN right
    ELSE IF DEq(x, xp[n]) THEN fp[n]
    ELSE LET i == CHOOSE i \in 1..(n - 1) : ~DLess(x, xp[i]) /\ DLess(x, xp[i + 1])
             slope == DDiv(DSub(fp[i + 1], fp[i]), DSub(xp[i + 1], xp[i]))
         IN  DAdd(DMul(slope, DSub(x, xp[i])), fp[i])

NpInterp(x, xp, fp, left, right) ==
    [i \in 1..Len(x) |-> InterpAt(x[i], xp, fp, left, right)]

\* np.log10 changed: -inf below 0 as at 0
NpLog10_InfBelowZero(x) ==
    CASE x.k = "nan" -> NaN
      [] x.k = "pinf" -> PInf
      [] x.k = "ninf" -> NaN
      [] OTHER -> IF x.n <= 0 THEN NInf ELSE [x EXCEPT !.k = "log10"]

\* np.log10: -inf at 0 (the divide warning is ignored), nan below 0 (a
\* warning, no exception).  The logarithm of a positive number x is kept as
\* the number x tagged "log10".
NpLog10(x) ==
    CASE x.k = "nan" -> NaN
      [] x.k = "pinf" -> PInf
      [] x.k = "ninf" -> NaN
      [] OTHER -> IF x.n = 0 THEN NInf
                  ELSE IF x.n < 0 THEN NaN
                  ELSE [x EXCEPT !.k = "log10"]

\* -2.5 * y for y a result of np.log10: -2.5*log10(x) is kept as the number
\* x tagged "m25log10"
TimesMinus25(y) ==
    CASE y.k = "nan" -> NaN
      [] y.k = "pinf" -> NInf
      [] y.k = "ninf" -> PInf
      [] OTHER -> [y EXCEPT !.k = "m25log10"]

\* the integer ratio N/D of a finite number without powers of 1499, 3631
RatN(p) == p.n * IPow(10, IF p.e > 0 THEN p.e ELSE 0)

RatD(p) == p.d * IPow(10, IF p.e < 0 THEN -p.e ELSE 0)

\* np.around(np.sqrt(p), decimals=1): the tenth nearest to the square root,
\* ties to the even tenth; nan for nan and for negative p
AroundSqrt1(p) ==
    IF IsNaN(p) \/ Sign(p) < 0 THEN NaN
    ELSE IF ~IsFin(p) THEN p
    ELSE LET N == RatN(p)
             D == RatD(p)
             r == CHOOSE r \in 0..(N \div D + 1) : r * r * D >= N /\
                      (r = 0 \/ (r - 1) * (r - 1) * D < N)
             \* hi: the greatest t with t - 1/2 <= 10 * sqrt(p)
             hi == CHOOSE t \in 0..(10 * r + 1) :
                      /\ (t = 0 \/ (2 * t - 1) * (2 * t - 1) * D <= 400 * N)
                      /\ (2 * t + 1) * (2 * t + 1) * D > 400 * N
             tie == hi > 0 /\ (2 * hi - 1) * (2 * hi - 1) * D = 400 * N
         IN  Rat(IF tie /\ hi % 2 = 1 THEN hi - 1 ELSE hi, 10)

\* ------------------------------------------------------------------------
\* SpecPhotCFIS: the values it computes
\* ------------------------------------------------------------------------
\* speed of light: 2.998e8 m/s = 2 * 1499 * 10^5, then in Angstrom/s
speed_of_light == DMul(Fin(2, 1, 5, 1, 0), Fin(1, 1, 10, 0, 0))

\* 1 maggy ~ 3631 Jy
ABZeroPoint == Fin(1, 1, 0, 0, 1)

\* the airmass the CFIS response curves assume
RefAirmass == Rat(125, 100)

\* np.loadtxt(wl_filename).astype(float)*1e4*(1+redshift)
StretchedWl(file, z) ==
    [i \in 1..Len(file) |->
        DMul(DMul(file[i], Fin(1, 1, 4, 0, 0)), DAdd(Num(1), z))]

\* np.median(np.diff(wl))
BinWidth(w) == NpMedian(NpDiff(w))

\* hdul[0].data*1e22, element by element; data[k][r][c]
ScaledCube(data) ==
    [k \in 1..Len(data) |->
        [r \in 1..Len(data[k]) |->
            [c \in 1..Len(data[k][r]) |-> DMul(data[k][r][c], Fin(1, 1, 22, 0, 0))]]]

\* band.capitalize() of the band identifiers
Capitalize(band) ==
    CASE band = "u" -> "U"
      [] band = "g" -> "G"
      [] band = "r" -> "R"
      [] band = "i" -> "I"
      [] band = "z" -> "Z"
      [] OTHER -> band

\* cfis_cfg_path+'{}_CFIS.res'.format(band.capitalize())
FilterFile(band) == <<Capitalize(band), "_CFIS.res">>

ExtinctionFile == <<"CFIS_extinction.txt">>

\* column col of a table read by np.loadtxt
Column(table, col) == [i \in 1..Len(table) |-> table[i][col]]

\* the resampling changed: np.interp without left=0,right=0 holds the first
\* and the last tabulated response outside the table
ResampledFilter_EdgeFill(table, w) ==
    NpInterp(w, Column(table, 1), Column(table, 2),
             Column(table, 2)[1], Column(table, 2)[Len(table)])

\* np.interp(xp=filter_wl,x=wl,fp=filter_res,left=0,right=0)
ResampledFilter(table, w) ==
    NpInterp(w, Column(table, 1), Column(table, 2), Zero, Zero)

\* np.interp(xp=wl_kk,x=wl,fp=kk,left=np.nanmax(kk),right=0)
ResampledExtinction(table, w) ==
    NpInterp(w, Column(table, 1), Column(table, 2), NpMax(Column(table, 2)), Zero)

\* the exponent 0.4*((1.25-airmass)*kk)
ExtExponent(a, k) == DMul(Rat(4, 10), DMul(DSub(RefAirmass, a), k))

IsInteger(x) == IsFin(x) /\ x.c = 0 /\ x.j = 0 /\ RatN(x) % RatD(x) = 0

\* 10**x for an integer x
Pow10(x) == Fin(1, 1, RatN(x) \div RatD(x), 0, 0)

\* filter_res *= 10**(0.4*((1.25-airmass)*kk))
ExtinctionCorrected(res, k, a) ==
    [i \in 1..Len(res) |-> DMul(res[i], Pow10(ExtExponent(a, k[i])))]

\* lines 70-79: the response of a band on the grid w at airmass a
ResolvedResponse(ftable, etable, w, a) ==
    ExtinctionCorrected(ResampledFilter(ftable, w), ResampledExtinction(etable, w), a)

\* np.sum(filter_res*wl*dwl)/np.sum(filter_res*dwl/wl)
PivotWl2(res, w, dw) ==
    DDiv(NpSum([i \in 1..Len(w) |-> DMul(DMul(res[i], w[i]), dw)]),
         NpSum([i \in 1..Len(w) |-> DDiv(DMul(res[i], dw), w[i])]))

\* ifu_data.T: axes reversed, T[c][r][k] = data[k][r][c]
Transposed(data) ==
    IF Len(data) = 0 THEN <<>>
    ELSE [c \in 1..Len(data[1][1]) |->
            [r \in 1..Len(data[1]) |->
                [k \in 1..Len(data) |-> data[k][r][c]]]]

\* np.sum(wl*filter_res*ifu_data.T*dwl,axis=2)/np.sum(wl*filter_res*dwl):
\* the last axis of ifu_data.T is summed, the first two are kept in order
MeanPhotonRate(res, w, dw, data) ==
    LET T == Transposed(data)
        den == NpSum([k \in 1..Len(w) |-> DMul(DMul(w[k], res[k]), dw)])
    IN  [a \in 1..Len(T) |->
            [b \in 1..Len(T[a]) |->
                DDiv(NpSum([k \in 1..Len(w) |->
                         DMul(DMul(DMul(w[k], res[k]), T[a][b][k]), dw)]), den)]]

\* the dimming changed: the factor (1+redshift)**-5 left out
RedshiftDimming_Omitted(z) == Num(1)

\* (1+redshift)**-5
RedshiftDimming(z) == DPow(DAdd(Num(1), z), -5)

\* f_wl*wl_pivot2/speed_of_light/3631.*(1+redshift)**-5
Maggies(fwl, pivot2, z) ==
    [a \in 1..Len(fwl) |->
        [b \in 1..Len(fwl[a]) |->
            DMul(DDiv(DDiv(DMul(fwl[a][b], pivot2), speed_of_light), ABZeroPoint),
                 RedshiftDimming(z))]]

\* -2.5*np.log10(f_mgys)
SurfaceBrightness(fm) ==
    [a \in 1..Len(fm) |->
        [b \in 1..Len(fm[a]) |-> TimesMinus25(NpLog10(fm[a][b]))]]

\* _outputName.format(band): every "{}" of the template becomes the band
Format(template, band) ==
    [i \in 1..Len(template) |-> IF template[i] = "{}" THEN band ELSE template[i]]

\* ------------------------------------------------------------------------
\* Inputs of a run
\* ------------------------------------------------------------------------
\* 'u','g','r','i','z' (docstring of SpecPhotCFIS)
BandIds == {"u", "g", "r", "i", "z"}

RECURSIVE SeqsUpTo(_, _)
SeqsUpTo(S, n) ==
    IF n = 0 THEN {<<>>}
    ELSE LET shorter == SeqsUpTo(S, n - 1)
         IN  shorter \cup {Append(q, x) : q \in {t \in shorter : Len(t) = n - 1}, x \in S}

BandLists == SeqsUpTo(BandIds, MaxBands)

\* a row of a two-column table, wavelength in Angstrom
Row(x, y) == <<x, y>>

\* the extinction tables [mag/airmass] of the model
ExtinctionTables ==
    { <<Row(Num(1), Zero), Row(Num(16), Zero)>>,
      <<Row(Num(2), Num(4)), Row(Num(4), Zero)>>,
      <<Row(Num(2), Num(2)), Row(Num(3), Num(2)), Row(Num(6), Num(2))>> }

\* the directory cfis_cfg_path: a triangular G response on [2, 4] Angstrom,
\* a flat R response on [1, 16], a one-row I table, a Z response on [6, 8],
\* no U file, and the extinction table ext
CfgDir(ext) ==
    (FilterFile("g") :> <<Row(Num(2), Zero), Row(Num(3), Num(1)), Row(Num(4), Zero)>>)
    @@ (FilterFile("r") :> <<Row(Num(1), Rat(1, 2)), Row(Num(16), Rat(1, 2))>>)
    @@ (FilterFile("i") :> <<Row(Num(5), Num(1))>>)
    @@ (FilterFile("z") :> <<Row(Num(6), Num(1)), Row(Num(8), Num(1))>>)
    @@ (ExtinctionFile :> ext)

\* the specific intensity [W/m2/micron/arcsec2] of a pixel at slice k
Spectrum(kind, k) ==
    CASE kind = "pos" -> Num(1)
      [] kind = "zero" -> Zero
      [] kind = "neg" -> Num(-1)
      [] kind = "blue" -> IF k = 1 THEN Num(100) ELSE Num(1)
      [] OTHER -> Num(k)

\* a datacube with axes (wavelength, spatial-row, spatial-col)
CubeOf(pixels, nwl) ==
    [k \in 1..nwl |->
        [r \in 1..Len(pixels) |->
            [c \in 1..Len(pixels[r]) |-> Spectrum(pixels[r][c], k)]]]

\* non-square pixel maps: 2 rows of 3 columns, 1 row of 2 columns
PixelMaps ==
    { << <<"pos", "zero", "neg">>, <<"blue", "red", "pos">> >>,
      << <<"blue", "pos">> >> }

NoValue == <<>>

\* the header of the IFU cube
CubeHeader(nwl) ==
    [NAXIS3 |-> <<nwl>>, BUNIT |-> <<"W/m2/micron/arcsec2">>, FILTER |-> NoValue,
     WLEFF |-> NoValue, REDSHIFT |-> NoValue]

\* a header without the cards of the model
FreshHeader ==
    [NAXIS3 |-> NoValue, BUNIT |-> NoValue, FILTER |-> NoValue,
     WLEFF |-> NoValue, REDSHIFT |-> NoValue]

\* a file left at an output path by an earlier run
OldFile == [data |-> <<>>, header |-> [FreshHeader EXCEPT !.BUNIT = <<"old">>]]

OutputTemplates == { <<"photo_", "{}", ".fits">>, <<"photo.fits">> }

\* output paths of the requested bands
OutputPaths(template, bs) == {Format(template, bs[n]) : n \in 1..Len(bs)}

\* the extinction exponents of the model are integers, so that 10**x is exact
ExactExtinction(file, z, a, ext) ==
    LET k == ResampledExtinction(ext, StretchedWl(file, z))
    IN  \A n \in 1..Len(k) : IsInteger(ExtExponent(a, k[n]))

VARIABLES
    bands, overwrite, redshift, airmass, outputName, wl_file, cfg, input, fs0,
    fs, pc, err, wl, dwl, header, ifu_data, i, filter_wl, filter_res, kk,
    wl_pivot2, f_wl, f_mgys, f_sb, photo_out, hdu

params == <<bands, overwrite, redshift, airmass, outputName, wl_file, cfg, input, fs0>>

bandLocals == <<filter_wl, filter_res, kk, wl_pivot2, f_wl, f_mgys, f_sb, photo_out, hdu>>

vars == <<params, fs, pc, err, wl, dwl, header, ifu_data, i, bandLocals>>

\* the band of the current iteration of "for band in bands"
band == bands[i]

\* the state at the call, before the first statement
InitLocals ==
    /\ fs = fs0
    /\ pc = "grid"
    /\ err = "none"
    /\ wl = <<>>
    /\ dwl = Zero
    /\ header = FreshHeader
    /\ ifu_data = <<>>
    /\ i = 0
    /\ filter_wl = <<>>
    /\ filter_res = <<>>
    /\ kk = <<>>
    /\ wl_pivot2 = Zero
    /\ f_wl = <<>>
    /\ f_mgys = <<>>
    /\ f_sb = <<>>
    /\ photo_out = <<>>
    /\ hdu = [data |-> <<>>, header |-> FreshHeader]

\* wavelength files [micron] of the runs: one sample, decreasing, repeated,
\* increasing
RunWlFiles ==
    { <<Fin(3, 1, -4, 0, 0)>>,
      <<Fin(3, 1, -4, 0, 0), Fin(2, 1, -4, 0, 0)>>,
      <<Fin(2, 1, -4, 0, 0), Fin(3, 1, -4, 0, 0), Fin(3, 1, -4, 0, 0)>>,
      <<Fin(2, 1, -4, 0, 0), Fin(3, 1, -4, 0, 0), Fin(4, 1, -4, 0, 0)>> }

\* runs over lists of bands, with and without files at the output paths
Init ==
    /\ bands \in BandLists
    /\ overwrite \in BOOLEAN
    /\ redshift \in {Zero, Num(1)}
    /\ airmass = Zero
    /\ outputName \in OutputTemplates
    /\ wl_file \in RunWlFiles
    /\ cfg = CfgDir(<<Row(Num(2), Num(4)), Row(Num(4), Zero)>>)
    /\ input = [header |-> CubeHeader(Len(wl_file)),
                data |-> CubeOf(<< <<"pos", "zero", "neg">>, <<"blue", "red", "pos">> >>,
                                Len(wl_file))]
    /\ fs0 \in [OutputPaths(outputName, bands) -> {<<>>, <<OldFile>>}]
    /\ ExactExtinction(wl_file, redshift, airmass, cfg[ExtinctionFile])
    /\ InitLocals

PhotRedshifts == {Zero, Rat(1, 2), Num(1)}

\* strictly increasing wavelength files [micron]
PhotWlFiles ==
    { [n \in 1..Len(q) |-> Fin(q[n], 1, -4, 0, 0)] :
        q \in { t \in SeqsUpTo(1..MaxRaw, MaxWl) :
                   Len(t) >= 1 /\ \A n \in 1..(Len(t) - 1) : t[n] < t[n + 1] } }

\* runs of one band over the grids, redshifts, airmasses, extinction tables
\* and cubes of the model
InitPhot ==
    /\ bands \in {<<b>> : b \in BandIds}
    /\ overwrite = FALSE
    /\ redshift \in PhotRedshifts
    /\ airmass \in {Zero, RefAirmass, Rat(375, 100)}
    /\ outputName = <<"photo_", "{}", ".fits">>
    /\ wl_file \in PhotWlFiles
    /\ cfg \in {CfgDir(ext) : ext \in ExtinctionTables}
    /\ input \in {[header |-> CubeHeader(Len(wl_file)),
                    data |-> CubeOf(pixels, Len(wl_file))] : pixels \in PixelMaps}
    /\ fs0 = [path \in OutputPaths(outputName, bands) |-> <<>>]
    /\ ExactExtinction(wl_file, redshift, airmass, cfg[ExtinctionFile])
    /\ InitLocals

\* lines 43-45: the wavelength grid and its bin width.  np.loadtxt gives a
\* 0-d array for a file of one number, which np.diff rejects (ValueError).
BuildGrid ==
    /\ pc = "grid"
    /\ IF Len(wl_file) = 1
       THEN /\ pc' = "failed"
            /\ err' = "ValueError"
            /\ UNCHANGED <<wl, dwl>>
       ELSE /\ wl' = StretchedWl(wl_file, redshift)
            /\ dwl' = BinWidth(StretchedWl(wl_file, redshift))
            /\ pc' = "open"
            /\ UNCHANGED err
    /\ UNCHANGED <<params, fs, header, ifu_data, i, bandLocals>>

\* lines 48-52: read the header and the data of the IFU cube
ReadCube ==
    /\ pc = "open"
    /\ header' = input.header
    /\ ifu_data' = ScaledCube(input.data)
    /\ pc' = "header"
    /\ UNCHANGED <<params, fs, err, wl, dwl, i, bandLocals>>

\* the loop "for band in bands" at index n: the next band, or the end
LoopAt(n) == IF n <= Len(bands) THEN "load" ELSE "done"

\* lines 55-59: header changes for photometry, then the first band
PrepareHeader ==
    /\ pc = "header"
    /\ header' = [header EXCEPT !.NAXIS3 = NoValue,
                                !.BUNIT = <<"AB mag/arcsec2">>,
                                !.FILTER = <<"">>,
                                !.WLEFF = <<Zero>>]
    /\ i' = 1
    /\ pc' = LoopAt(1)
    /\ UNCHANGED <<params, fs, err, wl, dwl, ifu_data, bandLocals>>

\* the loading changed: a band whose response file does not load is skipped
\* and the loop goes on with the next band
LoadFilter_SkipsBand ==
    /\ pc = "load"
    /\ IF ~(FilterFile(band) \in DOMAIN cfg /\ Len(cfg[FilterFile(band)]) >= 2)
       THEN /\ pc' = LoopAt(i + 1)
            /\ i' = i + 1
            /\ err' = "skipped"
            /\ UNCHANGED <<filter_wl, filter_res>>
       ELSE /\ filter_wl' = Column(cfg[FilterFile(band)], 1)
            /\ filter_res' = Column(cfg[FilterFile(band)], 2)
            /\ pc' = "resolve"
            /\ UNCHANGED <<err, i>>
    /\ UNCHANGED <<params, fs, wl, dwl, header, ifu_data, kk, wl_pivot2,
                   f_wl, f_mgys, f_sb, photo_out, hdu>>

\* lines 64-68: np.loadtxt of the band's response file (OSError when there
\* is none) and its two columns (IndexError for the 1-d array of a one-row
\* file)
LoadFilter ==
    /\ pc = "load"
    /\ IF FilterFile(band) \notin DOMAIN cfg
       THEN /\ pc' = "failed"
            /\ err' = "OSError"
            /\ UNCHANGED <<filter_wl, filter_res>>
       ELSE IF Len(cfg[FilterFile(band)]) < 2
       THEN /\ pc' = "failed"
            /\ err' = "IndexError"
            /\ UNCHANGED <<filter_wl, filter_res>>
       ELSE /\ filter_wl' = Column(cfg[FilterFile(band)], 1)
            /\ filter_res' = Column(cfg[FilterFile(band)], 2)
            /\ pc' = "resolve"
            /\ UNCHANGED err
    /\ UNCHANGED <<params, fs, wl, dwl, header, ifu_data, i, kk, wl_pivot2,
                   f_wl, f_mgys, f_sb, photo_out, hdu>>

\* lines 70-79: the response on the grid, corrected for extinction (every
\* directory of the model holds the extinction file, so line 75 loads it)
ResolveFilter ==
    /\ pc = "resolve"
    /\ kk' = ResampledExtinction(cfg[ExtinctionFile], wl)
    /\ filter_res' = ResolvedResponse(cfg[FilterFile(band)], cfg[ExtinctionFile],
                                      wl, airmass)
    /\ pc' = "integrate"
    /\ UNCHANGED <<params, fs, err, wl, dwl, header, ifu_data, i, filter_wl,
                   wl_pivot2, f_wl, f_mgys, f_sb, photo_out, hdu>>

\* lines 82-85: pivot wavelength squared and mean photon rate density
Integrate ==
    /\ pc = "integrate"
    /\ wl_pivot2' = PivotWl2(filter_res, wl, dwl)
    /\ f_wl' = MeanPhotonRate(filter_res, wl, dwl, ifu_data)
    /\ pc' = "convert"
    /\ UNCHANGED <<params, fs, err, wl, dwl, header, ifu_data, i, filter_wl,
                   filter_res, kk, f_mgys, f_sb, photo_out, hdu>>

\* lines 90-94: maggies and AB surface brightness
Convert ==
    /\ pc = "convert"
    /\ f_mgys' = Maggies(f_wl, wl_pivot2, redshift)
    /\ f_sb' = SurfaceBrightness(Maggies(f_wl, wl_pivot2, redshift))
    /\ pc' = "remove"
    /\ UNCHANGED <<params, fs, err, wl, dwl, header, ifu_data, i, filter_wl,
                   filter_res, kk, wl_pivot2, f_wl, photo_out, hdu>>

\* the file system after "if os.access(path,0):os.remove(path)"
RemoveIfExists(files, path) == [files EXCEPT ![path] = <<>>]

\* lines 97-98: the output path of the band; a file there is removed
RemoveExisting ==
    /\ pc = "remove"
    /\ photo_out' = Format(outputName, band)
    /\ fs' = RemoveIfExists(fs, Format(outputName, band))
    /\ pc' = "stamp"
    /\ UNCHANGED <<params, err, wl, dwl, header, ifu_data, i, filter_wl,
                   filter_res, kk, wl_pivot2, f_wl, f_mgys, f_sb, hdu>>

\* the header updates changed: WLEFF is not updated for the band
StampedHeader_StaleWleff(h, b, pivot2, z) ==
    [h EXCEPT !.FILTER = <<b>>, !.REDSHIFT = <<z>>]

\* the header after the band-specific updates of lines 102-104
StampedHeader(h, b, pivot2, z) ==
    [h EXCEPT !.FILTER = <<b>>,
              !.WLEFF = <<AroundSqrt1(pivot2)>>,
              !.REDSHIFT = <<z>>]

\* lines 101-105: the HDU of the band and the header updates.  The FITS
\* library refuses a nan or inf header value with a ValueError; releases
\* that store it are covered by the other outcome.
StampHeader ==
    /\ pc = "stamp"
    /\ \E refuses \in BOOLEAN :
         IF refuses /\ ~IsFin(AroundSqrt1(wl_pivot2))
         THEN /\ header' = [header EXCEPT !.FILTER = <<band>>]
              /\ pc' = "failed"
              /\ err' = "ValueError"
              /\ hdu' = [data |-> f_sb, header |-> FreshHeader]
         ELSE /\ header' = StampedHeader(header, band, wl_pivot2, redshift)
              /\ hdu' = [data |-> f_sb,
                         header |-> StampedHeader(header, band, wl_pivot2, redshift)]
              /\ pc' = "write"
              /\ UNCHANGED err
    /\ UNCHANGED <<params, fs, wl, dwl, ifu_data, i, filter_wl, filter_res, kk,
                   wl_pivot2, f_wl, f_mgys, f_sb, photo_out>>

\* the file system after hdu.writeto(path, overwrite=True)
WriteTo(files, path, h) == [files EXCEPT ![path] = <<h>>]

\* line 106: write the image, then the next band
WriteImage ==
    /\ pc = "write"
    /\ fs' = WriteTo(fs, photo_out, hdu)
    /\ i' = i + 1
    /\ pc' = LoopAt(i + 1)
    /\ UNCHANGED <<params, err, wl, dwl, header, ifu_data, bandLocals>>

Next ==
    \/ BuildGrid
    \/ ReadCube
    \/ PrepareHeader
    \/ LoadFilter
    \/ ResolveFilter
    \/ Integrate
    \/ Convert
    \/ RemoveExisting
    \/ StampHeader
    \/ WriteImage

Spec == Init /\ [][Next]_vars

SpecPhot == InitPhot /\ [][Next]_vars

\* ------------------------------------------------------------------------
\* Properties
\* ------------------------------------------------------------------------
\* the values f_mgys, f_sb and wl_pivot2 are those of the current band
BandConverted == pc \in {"remove", "stamp", "write"}

\* the image of the current band has just been written
JustWritten == pc \in {"load", "done"} /\ i >= 2

\* path holds a file written by this run
Emitted(path) == fs[path] # <<>> /\ fs[path] # fs0[path]

OutputPath(n) == Format(outputName, bands[n])

ZeroResponse == \A n \in 1..Len(filter_res) : Sign(filter_res[n]) = 0

SameArray(x, y) == Len(x) = Len(y) /\ \A n \in 1..Len(x) : DEq(x[n], y[n])

\* what the run computes for band b at redshift z from its inputs
GridAt(z) == StretchedWl(wl_file, z)

ResponseAt(b, z) ==
    ResolvedResponse(cfg[FilterFile(b)], cfg[ExtinctionFile], GridAt(z), airmass)

PivotAt(b, z) == PivotWl2(ResponseAt(b, z), GridAt(z), BinWidth(GridAt(z)))

MaggiesAt(b, z) ==
    Maggies(MeanPhotonRate(ResponseAt(b, z), GridAt(z), BinWidth(GridAt(z)),
                           ScaledCube(input.data)),
            PivotAt(b, z), z)

\* C1: a file that exists at an output path when the run starts is neither
\* removed nor replaced unless overwrite is set.
C1_KeepsExistingWithoutOverwrite ==
    \A path \in DOMAIN fs :
        (fs0[path] # <<>> /\ ~overwrite) => fs[path] = fs0[path]

\* C2: when some requested band, at any position, has no filter file, the
\* run never completes and no output file of any band is removed or written.
C2_UnknownBandTouchesNothing ==
    (\E n \in 1..Len(bands) : FilterFile(bands[n]) \notin DOMAIN cfg)
        => (pc # "done" /\ fs = fs0)

\* the filter file of band b loads as a two-column table
Loads(b) == FilterFile(b) \in DOMAIN cfg /\ Len(cfg[FilterFile(b)]) >= 2

\* C3 as claimed: when the processing of one band has failed, every other
\* requested band whose filter table loads has its output emitted.
C3_FailureIsolated ==
    (pc = "failed" /\ i >= 1) =>
        \A n \in 1..Len(bands) :
            (n # i /\ Loads(bands[n])) => Emitted(OutputPath(n))

\* C3 as amended: a failure of a band aborts the run.  Every file the run
\* has emitted was written for a band before the failed one and none carries
\* the failed band's identifier; and the loop passes a band only by writing
\* its output (which stays until a later band of the same output path
\* replaces it).
C3_FailureAbortsRun ==
    /\ (pc = "failed" /\ i >= 1) =>
          \A path \in DOMAIN fs :
              Emitted(path) =>
                  /\ fs[path][1].header.FILTER # <<bands[i]>>
                  /\ \E m \in 1..(i - 1) :
                        /\ path = OutputPath(m)
                        /\ fs[path][1].header.FILTER = <<bands[m]>>
    /\ \A m \in 1..(i - 1) :
          m <= Len(bands) =>
              \/ Emitted(OutputPath(m))
              \/ \E n \in (m + 1)..i : n <= Len(bands) /\ OutputPath(n) = OutputPath(m)

\* a band has failed while a band that would load is still to come
C3_Witness ==
    /\ pc = "failed"
    /\ i = 1
    /\ Len(bands) = 2
    /\ bands[2] = "g"
    /\ ~Emitted(OutputPath(2))

\* C4: a response that is zero at every sample of the grid is detected:
\* no image is computed from it.
C4_ZeroResponseDetected == BandConverted => ~ZeroResponse

\* C5: with a wavelength file of fewer than 2 samples or with a decreasing
\* step, the grid is not built: the run does not get past it.
C5_BadGridFails ==
    (Len(wl_file) < 2 \/ \E n \in 1..(Len(wl_file) - 1) : DLess(wl_file[n + 1], wl_file[n]))
        => pc \in {"grid", "failed"}

NonPositive(x) == IsFin(x) /\ x.n <= 0

\* C6 as claimed: all pixels of non-positive relative flux hold one and the
\* same marker.
C6_OneMarker ==
    BandConverted =>
        \A a1 \in 1..Len(f_sb), a2 \in 1..Len(f_sb) :
            \A b1 \in 1..Len(f_sb[a1]), b2 \in 1..Len(f_sb[a2]) :
                (NonPositive(f_mgys[a1][b1]) /\ NonPositive(f_mgys[a2][b2]))
                    => f_sb[a1][b1] = f_sb[a2][b2]

\* C6 as amended: a pixel of zero relative flux holds +inf and a pixel of
\* negative relative flux holds nan; the image has one value per pixel of
\* the flux map, the conversion raises nothing (the only failure after it is
\* the refused header value of an undefined pivot wavelength) and the image
\* is written as computed.
C6_InfAndNanMarkers ==
    /\ (BandConverted \/ JustWritten) =>
          /\ Len(f_sb) = Len(f_mgys)
          /\ \A a \in 1..Len(f_sb) :
                /\ Len(f_sb[a]) = Len(f_mgys[a])
                /\ \A b \in 1..Len(f_sb[a]) :
                      /\ (IsFin(f_mgys[a][b]) /\ f_mgys[a][b].n = 0) => f_sb[a][b] = PInf
                      /\ (IsFin(f_mgys[a][b]) /\ f_mgys[a][b].n < 0) => f_sb[a][b] = NaN
                      /\ (IsFin(f_mgys[a][b]) /\ f_mgys[a][b].n > 0)
                            => f_sb[a][b].k = "m25log10"
    /\ JustWritten => fs[photo_out] = <<[data |-> f_sb, header |-> header]>>
    /\ (pc = "failed" /\ i >= 1 /\ Loads(band)) => ~IsFin(wl_pivot2)

\* an image with a zero-flux pixel and a negative-flux pixel has been written
C6_Witness ==
    /\ JustWritten
    /\ \E a \in 1..Len(f_mgys) : \E b \in 1..Len(f_mgys[a]) :
          IsFin(f_mgys[a][b]) /\ f_mgys[a][b].n = 0
    /\ \E a \in 1..Len(f_mgys) : \E b \in 1..Len(f_mgys[a]) :
          IsFin(f_mgys[a][b]) /\ f_mgys[a][b].n < 0
    /\ \E a \in 1..Len(f_mgys) : \E b \in 1..Len(f_mgys[a]) :
          IsFin(f_mgys[a][b]) /\ f_mgys[a][b].n > 0

\* C7 as claimed: at every larger redshift, the same inputs give every pixel
\* of positive flux a strictly smaller relative flux (where it is a number).
C7_DimmerAtLargerRedshift ==
    BandConverted =>
        \A z2 \in PhotRedshifts :
            DLess(redshift, z2) =>
                \A a \in 1..Len(f_mgys) : \A b \in 1..Len(f_mgys[a]) :
                    (Sign(f_mgys[a][b]) > 0 /\ IsFin(MaggiesAt(band, z2)[a][b]))
                        => DLess(MaggiesAt(band, z2)[a][b], f_mgys[a][b])

\* C7 as amended: this holds when the resolved response of the band is the
\* same, sample by sample, at both redshifts.
C7_DimmerForSameResponse ==
    BandConverted =>
        \A z2 \in PhotRedshifts :
            (DLess(redshift, z2) /\ SameArray(ResponseAt(band, z2), filter_res)) =>
                \A a \in 1..Len(f_mgys) : \A b \in 1..Len(f_mgys[a]) :
                    Sign(f_mgys[a][b]) > 0
                        => DLess(MaggiesAt(band, z2)[a][b], f_mgys[a][b])

\* a pixel of positive flux, and a larger redshift with the same response
C7_Witness ==
    /\ BandConverted
    /\ \E z2 \in PhotRedshifts :
          DLess(redshift, z2) /\ SameArray(ResponseAt(band, z2), filter_res)
    /\ \E a \in 1..Len(f_mgys) : \E b \in 1..Len(f_mgys[a]) :
          Sign(f_mgys[a][b]) > 0 /\ IsFin(f_mgys[a][b])

\* C8: the resolved response has one entry per grid sample, no entry is
\* negative, and it is zero at every sample below the first or above the
\* last wavelength of the raw filter table.
C8_ResponseOnGrid ==
    (pc = "integrate") =>
        /\ Len(filter_res) = Len(wl)
        /\ \A n \in 1..Len(filter_res) :
              /\ IsFin(filter_res[n])
              /\ Sign(filter_res[n]) >= 0
              /\ (DLess(wl[n], filter_wl[1]) \/ DLess(filter_wl[Len(filter_wl)], wl[n]))
                    => Sign(filter_res[n]) = 0

\* a response with a sample outside the table and a positive sample inside,
\* at an airmass that is not the reference
C8_Witness ==
    /\ pc = "integrate"
    /\ ~DEq(airmass, RefAirmass)
    /\ \E n \in 1..Len(wl) : DLess(wl[n], filter_wl[1])
    /\ \E n \in 1..Len(wl) : DLess(filter_wl[Len(filter_wl)], wl[n])
    /\ \E n \in 1..Len(wl) : Sign(filter_res[n]) > 0

\* the file the run writes for band b
ImageOf(b) ==
    [data |-> SurfaceBrightness(MaggiesAt(b, redshift)),
     header |-> [NAXIS3 |-> NoValue,
                 BUNIT |-> <<"AB mag/arcsec2">>,
                 FILTER |-> <<b>>,
                 WLEFF |-> <<AroundSqrt1(PivotAt(b, redshift))>>,
                 REDSHIFT |-> <<redshift>>]]

\* C9: after a run (completed or failed), every emitted file is the image
\* of one requested band with that band's identifier, that band's rounded
\* pivot wavelength, the redshift of the run and the unit 'AB mag/arcsec2':
\* the band last written to its path.
C9_MetadataOfOwnBand ==
    (pc \in {"done", "failed"}) =>
        \A path \in DOMAIN fs :
            Emitted(path) =>
                \E m \in 1..Len(bands) :
                    /\ m < i
                    /\ path = OutputPath(m)
                    /\ \A n \in (m + 1)..(i - 1) : n <= Len(bands) => OutputPath(n) # path
                    /\ fs[path] = <<ImageOf(bands[m])>>

\* two bands of different pivot wavelength have been emitted
C9_Witness ==
    /\ pc = "done"
    /\ Len(bands) = 2
    /\ Emitted(OutputPath(1))
    /\ Emitted(OutputPath(2))
    /\ fs[OutputPath(1)][1].header.FILTER # fs[OutputPath(2)][1].header.FILTER
    /\ fs[OutputPath(1)][1].header.WLEFF # fs[OutputPath(2)][1].header.WLEFF

\* C10: the image has the spatial shape (rows, cols) of the datacube, and
\* its value at (r, c) is the magnitude of the datacube pixel (r, c).
C10_ImageNotTransposed ==
    BandConverted =>
        /\ Len(f_sb) = Len(input.data[1])
        /\ \A r \in 1..Len(f_sb) :
              /\ Len(f_sb[r]) = Len(input.data[1][1])
              /\ \A c \in 1..Len(f_sb[r]) :
                    f_sb[r][c] = SurfaceBrightness(MaggiesAt(band, redshift))[c][r]

====
